---- MODULE Spec2Model ----
(***************************************************************************)
(* A model of the two command-line pipelines of the Epiclock repository:   *)
(*   s00005_geo_inspector.py       (GEO series download / parse / export)  *)
(*   s00007_extract_annotation.py  (annotation download / extract / merge) *)
(*                                                                         *)
(* Text (paths, archive entry names, phenotype entries) is modelled as a   *)
(* sequence of one-character strings, so that prefix tests, splitting and  *)
(* trimming are computed character by character as the code does.          *)
(***************************************************************************)
EXTENDS Integers, Sequences, FiniteSets, TLC

VARIABLES
    \* ---- _safe_extract called on its own (SpecExtract) ----
    xArchive,     \* the archive: a sequence of entry names (tar.getmembers())
    xPc,          \* "ready" | "done"
    xRaised,      \* TRUE when _safe_extract raised
    xExtracted,   \* the set of resolved paths tar.extractall wrote
    \* ---- summarize_phenotypes called on its own (SpecPheno) ----
    hGsms,        \* gse.gsms: the sub-records, in order
    hPc,          \* "ready" | "done"
    hRows,        \* rows: one dict per sub-record, as <<key, value>> pairs in order
    hTally,       \* Counter(values): <<label, count>> pairs in order
    hCsv,         \* the exported table
    \* ---- format_duration called on its own (SpecDuration) ----
    dSeconds,     \* the argument, in quarters of a second
    dPc,          \* "ready" | "done"
    dOut,         \* the returned text
    \* ---- the two pipelines (Spec) ----
    script,       \* "geo" (s00005_geo_inspector.py) | "anno" (s00007_extract_annotation.py)
    args,         \* the parsed command line
    pc,           \* position in main: start, enter, work, exit, branch, except, finish, done
    step,         \* the StepTimer block main is in (0 before the first)
    fs,           \* the files the scripts read and write: name -> content
    extracted,    \* the paths written by tar.extractall so far
    gse,          \* the object load_or_parse_gse returned ("none" before)
    log,          \* the records the logging module emitted in this run
    ops,          \* the external calls made in this run, in order: <<call, result>>
    exc,          \* the exception in flight ("none" when there is none)
    raised,       \* the exception that left main ("none" when main returned or still runs)
    runNo,        \* the number of the run of the script
    prev          \* how the previous run ended: [ok, csv]

xvars == <<xArchive, xPc, xRaised, xExtracted>>

hvars == <<hGsms, hPc, hRows, hTally, hCsv>>

dvars == <<dSeconds, dPc, dOut>>

pvars == <<script, args, pc, step, fs, extracted, gse, log, ops, exc, raised, runNo, prev>>

vars == <<xArchive, xPc, xRaised, xExtracted, hGsms, hPc, hRows, hTally, hCsv,
         dSeconds, dPc, dOut,
          script, args, pc, step, fs, extracted, gse, log, ops, exc, raised, runNo, prev>>

-----------------------------------------------------------------------------
(* Bounds of the model *)

MaxComps == 2       \* components of a generated archive entry name
MaxEntries == 2     \* entries of a generated archive
MaxRuns == 2        \* runs of a script on the same disk
MaxSamples == 2     \* sub-records of a generated series
MaxItems == 2       \* entries of the designated field of a generated sub-record
MaxDays == 2        \* whole days in a generated duration

-----------------------------------------------------------------------------
(* Text helpers: posixpath as used by _safe_extract *)

Slash == "/"
Dot == <<".">>
DotDot == <<".", ".">>

\* the working directory of the process, used by os.path.abspath on a relative path
Cwd == <<"/", "w">>

RECURSIVE SplitFrom(_, _, _)
SplitFrom(s, i, cur) ==
    IF i > Len(s) THEN <<cur>>
    ELSE IF s[i] = Slash THEN <<cur>> \o SplitFrom(s, i + 1, <<>>)
    ELSE SplitFrom(s, i + 1, Append(cur, s[i]))

\* str.split("/")
Split(s) == SplitFrom(s, 1, <<>>)

RECURSIVE JoinFrom(_, _)
JoinFrom(comps, i) ==
    IF i > Len(comps) THEN <<>>
    ELSE IF i = Len(comps) THEN comps[i]
    ELSE comps[i] \o <<Slash>> \o JoinFrom(comps, i + 1)

\* "/".join(comps)
JoinSlash(comps) == JoinFrom(comps, 1)

StartsWith(s, p) == Len(s) >= Len(p) /\ SubSeq(s, 1, Len(p)) = p

\* os.path.join(a, b) for two arguments (posixpath)
PathJoin(a, b) ==
    IF StartsWith(b, <<Slash>>) THEN b
    ELSE IF a = <<>> \/ a[Len(a)] = Slash THEN a \o b
    ELSE a \o <<Slash>> \o b

\* the number of leading slashes posixpath.normpath keeps: 0, 1 or 2
InitialSlashes(s) ==
    IF ~StartsWith(s, <<Slash>>) THEN 0
    ELSE IF StartsWith(s, <<Slash, Slash>>) /\ ~StartsWith(s, <<Slash, Slash, Slash>>) THEN 2
    ELSE 1

RECURSIVE NormFold(_, _, _, _)
NormFold(comps, i, new, initial) ==
    IF i > Len(comps) THEN new
    ELSE LET c == comps[i] IN
         IF c = <<>> \/ c = Dot THEN NormFold(comps, i + 1, new, initial)
         ELSE IF c # DotDot \/ (initial = 0 /\ new = <<>>)
                 \/ (new # <<>> /\ new[Len(new)] = DotDot)
              THEN NormFold(comps, i + 1, Append(new, c), initial)
         ELSE IF new # <<>>
              THEN NormFold(comps, i + 1, SubSeq(new, 1, Len(new) - 1), initial)
         ELSE NormFold(comps, i + 1, new, initial)

\* the components posixpath.normpath keeps
NormComps(s) == NormFold(Split(s), 1, <<>>, InitialSlashes(s))

\* posixpath.normpath
NormPath(s) ==
    IF s = <<>> THEN Dot
    ELSE LET body == JoinSlash(NormComps(s))
             lead == [k \in 1..InitialSlashes(s) |-> Slash]
             p == lead \o body
         IN IF p = <<>> THEN Dot ELSE p

\* os.path.abspath
AbsPath(s) == NormPath(IF StartsWith(s, <<Slash>>) THEN s ELSE PathJoin(Cwd, s))

RECURSIVE CommonLen(_, _, _)
CommonLen(a, b, i) ==
    IF i > Len(a) \/ i > Len(b) \/ a[i] # b[i] THEN i - 1
    ELSE CommonLen(a, b, i + 1)

\* os.path.commonprefix([a, b]): the longest common prefix, character by character
CommonPrefix(a, b) == SubSeq(a, 1, CommonLen(a, b, 1))

\* is_within_directory of _safe_extract
IsWithinDirectory(directory, target) ==
    LET abs_directory == AbsPath(directory)
        abs_target == AbsPath(target)
    IN CommonPrefix(abs_directory, abs_target) = abs_directory

\* the result of _safe_extract(archive, extract_dir): whether it raised and what
\* tar.extractall wrote (the resolved output path of every member)
SafeExtract(archive, extract_dir) ==
    IF \E i \in 1..Len(archive) :
           ~IsWithinDirectory(extract_dir, PathJoin(extract_dir, archive[i]))
    THEN [raised |-> TRUE, written |-> {}]
    ELSE [raised |-> FALSE,
          written |-> {AbsPath(PathJoin(extract_dir, archive[i])) : i \in 1..Len(archive)}]

-----------------------------------------------------------------------------
(* _safe_extract on generated archives *)

\* the destination directory of the extraction
ExtractDir == <<"/", "d">>

\* the components entry names are generated from
NameComps == {DotDot, <<"d">>, <<"d", "e">>, <<"f">>}

CompSeqs == UNION {[1..n -> NameComps] : n \in 1..MaxComps}

\* relative names and the same names made absolute
EntryNames == {JoinSlash(cs) : cs \in CompSeqs}
                 \cup {<<Slash>> \o JoinSlash(cs) : cs \in CompSeqs}

Archives == UNION {[1..n -> EntryNames] : n \in 0..MaxEntries}

\* the resolved output path of an entry: dest joined with the name, absolute, normalised
Resolved(name) == AbsPath(PathJoin(ExtractDir, name))

\* the resolved path lies in the destination directory (or is it)
Inside(path) ==
    LET d == NormComps(AbsPath(ExtractDir))
        t == NormComps(path)
    IN Len(t) >= Len(d) /\ SubSeq(t, 1, Len(d)) = d

\* the variables of format_duration while it is not exercised on its own
DIdle ==
    /\ dSeconds = 0
    /\ dPc = "done"
    /\ dOut = <<>>

\* the variables of summarize_phenotypes while it is not exercised on its own
HIdle ==
    /\ hGsms = <<>>
    /\ hPc = "done"
    /\ hRows = <<>>
    /\ hTally = <<>>
    /\ hCsv = [written |-> FALSE, cols |-> <<>>, cells |-> <<>>]

\* the pipelines' variables while a single function is exercised
PIdle ==
    /\ script = "none"
    /\ args = [no_monitor |-> FALSE, sample_index |-> 0, process_rda |-> FALSE,
               rpy2_ok |-> FALSE, log_level |-> "INFO"]
    /\ pc = "done"
    /\ step = 0
    /\ fs = [soft |-> "none", friendly |-> "none", other |-> "none", gseobj |-> "none",
             csv |-> [written |-> FALSE, cols |-> <<>>, cells |-> <<>>],
             tar |-> "none", outcsv |-> "none"]
    /\ extracted = {}
    /\ gse = "none"
    /\ log = <<>>
    /\ ops = <<>>
    /\ exc = "none"
    /\ raised = "none"
    /\ runNo = 1
    /\ prev = [ok |-> FALSE, csv |-> [written |-> FALSE, cols |-> <<>>, cells |-> <<>>]]

XInit ==
    /\ xArchive \in Archives
    /\ xPc = "ready"
    /\ xRaised = FALSE
    /\ xExtracted = {}
    /\ PIdle
    /\ HIdle
    /\ DIdle

XSafeExtract ==
    /\ xPc = "ready"
    /\ LET r == SafeExtract(xArchive, ExtractDir)
       IN /\ xRaised' = r.raised
          /\ xExtracted' = r.written
    /\ xPc' = "done"
    /\ UNCHANGED xArchive
    /\ UNCHANGED pvars
    /\ UNCHANGED hvars
    /\ UNCHANGED dvars

XNext == XSafeExtract

SpecExtract == XInit /\ [][XNext]_vars

-----------------------------------------------------------------------------
(* Text helpers of summarize_phenotypes *)

Colon == ":"
Whitespace == {" ", "\t", "\n"}

UpperLetters == <<"A", "B", "C", "D", "E", "F", "G", "H", "I", "J", "K", "L", "M",
                  "N", "O", "P", "Q", "R", "S", "T", "U", "V", "W", "X", "Y", "Z">>
LowerLetters == <<"a", "b", "c", "d", "e", "f", "g", "h", "i", "j", "k", "l", "m",
                  "n", "o", "p", "q", "r", "s", "t", "u", "v", "w", "x", "y", "z">>

LowerChar(c) ==
    IF \E i \in 1..Len(UpperLetters) : UpperLetters[i] = c
    THEN LowerLetters[CHOOSE i \in 1..Len(UpperLetters) : UpperLetters[i] = c]
    ELSE c

\* str.lower()
Lower(s) == [i \in 1..Len(s) |-> LowerChar(s[i])]

RECURSIVE LStrip(_)
LStrip(s) == IF s # <<>> /\ s[1] \in Whitespace THEN LStrip(Tail(s)) ELSE s

RECURSIVE RStrip(_)
RStrip(s) ==
    IF s # <<>> /\ s[Len(s)] \in Whitespace THEN RStrip(SubSeq(s, 1, Len(s) - 1)) ELSE s

\* str.strip()
Strip(s) == RStrip(LStrip(s))

\* ":" in item
HasColon(item) == \E i \in 1..Len(item) : item[i] = Colon

FirstColon(item) == CHOOSE i \in 1..Len(item) :
                        item[i] = Colon /\ \A j \in 1..(i - 1) : item[j] # Colon

\* item.split(":", 1)
SplitKey(item) == SubSeq(item, 1, FirstColon(item) - 1)
SplitValue(item) == SubSeq(item, FirstColon(item) + 1, Len(item))

\* the key of the identifier column
SampleIdKey == <<"s", "a", "m", "p", "l", "e", "_", "i", "d">>

\* record[k] = v on a dict kept as the sequence of its <<key, value>> pairs in
\* insertion order: an existing key keeps its place
DictSet(rec, k, v) ==
    IF \E i \in 1..Len(rec) : rec[i][1] = k
    THEN [i \in 1..Len(rec) |-> IF rec[i][1] = k THEN <<k, v>> ELSE rec[i]]
    ELSE Append(rec, <<k, v>>)

DictHas(rec, k) == \E i \in 1..Len(rec) : rec[i][1] = k
DictGet(rec, k) == rec[CHOOSE i \in 1..Len(rec) : rec[i][1] = k][2]

\* a mutant: the key keeps its case
ItemKeyKeepCase(item) == Strip(SplitKey(item))

\* k.strip().lower()
ItemKey(item) == Lower(Strip(SplitKey(item)))

\* v.strip()
ItemValue(item) == Strip(SplitValue(item))

RECURSIVE AddItems(_, _, _)
\* the inner loop of summarize_phenotypes over the entries of the field
AddItems(rec, meta, i) ==
    IF i > Len(meta) THEN rec
    ELSE IF HasColon(meta[i])
         THEN AddItems(DictSet(rec, ItemKey(meta[i]), ItemValue(meta[i])), meta, i + 1)
         ELSE AddItems(rec, meta, i + 1)

\* `if meta:` a sub-record without the field (None) or with an empty list is skipped
MetaTruthy(gsm) == gsm.has /\ gsm.items # <<>>

\* the row built for one sub-record
BuildRecord(gsm) ==
    LET record == <<<<SampleIdKey, gsm.sample_id>>>>
    IN IF MetaTruthy(gsm) THEN AddItems(record, gsm.items, 1) ELSE record

\* rows of summarize_phenotypes: one per sub-record, in the order of gse.gsms
SummarizeRows(gsms) == [i \in 1..Len(gsms) |-> BuildRecord(gsms[i])]

RECURSIVE ValuesFrom(_, _)
\* values.extend(meta) over the sub-records
ValuesFrom(gsms, i) ==
    IF i > Len(gsms) THEN <<>>
    ELSE (IF MetaTruthy(gsms[i]) THEN gsms[i].items ELSE <<>>) \o ValuesFrom(gsms, i + 1)

RECURSIVE CountInto(_, _, _)
\* Counter(values): labels in first-appearance order with their counts
CountInto(counter, values, i) ==
    IF i > Len(values) THEN counter
    ELSE CountInto(DictSet(counter, values[i],
                           IF DictHas(counter, values[i])
                           THEN DictGet(counter, values[i]) + 1 ELSE 1),
                   values, i + 1)

Tally(gsms) == CountInto(<<>>, ValuesFrom(gsms, 1), 1)

\* the columns of pd.DataFrame(rows): the keys in first-appearance order
RECURSIVE ColumnsFrom(_, _, _, _)
ColumnsFrom(rows, i, j, cols) ==
    IF i > Len(rows) THEN cols
    ELSE IF j > Len(rows[i]) THEN ColumnsFrom(rows, i + 1, 1, cols)
    ELSE ColumnsFrom(rows, i, j + 1,
                     IF \E c \in 1..Len(cols) : cols[c] = rows[i][j][1]
                     THEN cols ELSE Append(cols, rows[i][j][1]))

Columns(rows) == ColumnsFrom(rows, 1, 1, <<>>)

\* the cells pd.DataFrame(rows).to_csv writes: a header of the column union and,
\* per row, the value of each column (empty where the row has no such key)
Csv(rows) ==
    LET cols == Columns(rows)
    IN [written |-> TRUE,
        cols |-> cols,
        cells |-> [i \in 1..Len(rows) |->
                     [c \in 1..Len(cols) |->
                        IF DictHas(rows[i], cols[c]) THEN DictGet(rows[i], cols[c])
                        ELSE <<>>]]]

NoCsv == [written |-> FALSE, cols |-> <<>>, cells |-> <<>>]

-----------------------------------------------------------------------------
(* summarize_phenotypes on generated series *)

\* the entries the designated field is generated from: a key with a colon in its
\* value, the same key in upper case with blanks around it, an entry without a
\* colon, and an entry whose key is the identifier column's
ItemTexts == { <<"a", ":", "4", ":", "1">>,
               <<" ", "A", " ", ":", " ", "5", " ">>,
               <<"c">>,
               SampleIdKey \o <<":", "x">> }

\* the lists of entries: up to MaxItems entries, no entry twice in one list
ItemSeqs ==
    UNION {{q \in [1..n -> ItemTexts] : \A i, j \in 1..n : i # j => q[i] # q[j]}
              : n \in 0..MaxItems}

\* the identifier of the i-th sub-record
GsmId(i) == <<"G">> \o [k \in 1..i |-> "i"]

\* a sub-record without the field, or with the field holding a list of entries
FieldChoices == {[has |-> FALSE, items |-> <<>>]} \cup {[has |-> TRUE, items |-> q] : q \in ItemSeqs}

\* gse.gsms built from one choice per sub-record
GsmsFrom(m) ==
    [i \in 1..Len(m) |-> [sample_id |-> GsmId(i), has |-> m[i].has, items |-> m[i].items]]

HInit ==
    /\ \E n \in 0..MaxSamples : \E m \in [1..n -> FieldChoices] : hGsms = GsmsFrom(m)
    /\ hPc = "ready"
    /\ hRows = <<>>
    /\ hTally = <<>>
    /\ hCsv = NoCsv
    /\ xArchive = <<>>
    /\ xPc = "done"
    /\ xRaised = FALSE
    /\ xExtracted = {}
    /\ PIdle
    /\ DIdle

\* summarize_phenotypes: the rows, the tally it logs, the exported table
HSummarize ==
    /\ hPc = "ready"
    /\ hRows' = SummarizeRows(hGsms)
    /\ hTally' = Tally(hGsms)
    /\ hCsv' = Csv(SummarizeRows(hGsms))
    /\ hPc' = "done"
    /\ UNCHANGED <<hGsms, xvars, pvars, dvars>>

HNext == HSummarize

SpecPheno == HInit /\ [][HNext]_vars

-----------------------------------------------------------------------------
(* format_duration on generated durations *)

DigitChars == <<"0", "1", "2", "3", "4", "5", "6", "7", "8", "9">>

RECURSIVE Dec(_)
\* "%d" of a non-negative integer
Dec(n) == IF n < 10 THEN <<DigitChars[n + 1]>>
          ELSE Dec(n \div 10) \o <<DigitChars[(n % 10) + 1]>>

\* "%02d" of a non-negative integer
Dec2(n) == IF n < 10 THEN <<"0">> \o Dec(n) ELSE Dec(n)

\* round(seconds) of a float given in quarters of a second: the nearest integer,
\* a tie going to the even one
Round(q) ==
    LET w == q \div 4
        r == q % 4
    IN IF r < 2 THEN w
       ELSE IF r > 2 THEN w + 1
       ELSE IF w % 2 = 0 THEN w ELSE w + 1

\* str(timedelta(seconds=n)): the constructor splits n into days and seconds of the
\* day; __str__ renders the seconds as %d:%02d:%02d and puts "<d> day[s], " in front
\* when days is not zero
TimedeltaStr(n) ==
    LET days == n \div 86400
        secs == n % 86400
        hms == Dec(secs \div 3600) \o <<":">> \o Dec2((secs % 3600) \div 60)
                  \o <<":">> \o Dec2(secs % 60)
    IN IF days = 0 THEN hms
       ELSE Dec(days) \o <<" ", "d", "a", "y">> \o (IF days # 1 THEN <<"s">> ELSE <<>>)
               \o <<",", " ">> \o hms

FormatDuration(q) == TimedeltaStr(Round(q))

\* the durations generated: days, hours, minutes, seconds and quarters of a second
DurationHours == {0, 1, 10, 23}
DurationMinutes == {0, 1, 59}
DurationSeconds == {0, 1, 2, 59}
DurationQuarters == {0, 1, 2, 3}

DInit ==
    /\ \E d \in 0..MaxDays, h \in DurationHours, m \in DurationMinutes,
          sec \in DurationSeconds, f \in DurationQuarters :
          dSeconds = 4 * (d * 86400 + h * 3600 + m * 60 + sec) + f
    /\ dPc = "ready"
    /\ dOut = <<>>
    /\ xArchive = <<>>
    /\ xPc = "done"
    /\ xRaised = FALSE
    /\ xExtracted = {}
    /\ PIdle
    /\ HIdle

DFormatDuration ==
    /\ dPc = "ready"
    /\ dOut' = FormatDuration(dSeconds)
    /\ dPc' = "done"
    /\ UNCHANGED <<dSeconds, xvars, pvars, hvars>>

DNext == DFormatDuration

SpecDuration == DInit /\ [][DNext]_vars

-----------------------------------------------------------------------------
(* Logging: logging.basicConfig(level=...), FileLogger.log, logging.exception *)

LevelNo(lvl) ==
    CASE lvl = "DEBUG" -> 10
      [] lvl = "INFO" -> 20
      [] lvl = "WARNING" -> 30
      [] lvl = "ERROR" -> 40

\* a log record: FileLogger.log emits at INFO, logging.exception at ERROR
Rec(lvl, tag, arg) == [lvl |-> lvl, tag |-> tag, arg |-> arg, data |-> <<>>]
Info(tag, arg) == Rec("INFO", tag, arg)
InfoData(tag, data) == [lvl |-> "INFO", tag |-> tag, arg |-> "", data |-> data]

\* the root logger's level check
Passes(rec, threshold) == LevelNo(rec.lvl) >= LevelNo(threshold)

\* the records of recs that reach the handlers, appended to the log
Emit(l, threshold, recs) ==
    LET Test(r) == Passes(r, threshold)
    IN l \o SelectSeq(recs, Test)

\* SystemMonitor.report: four lines
ReportLines == <<Info("RES_HEADER", ""), Info("RES_CPU", ""),
                 Info("RES_MEM", ""), Info("RES_DISK", "")>>

-----------------------------------------------------------------------------
(* StepTimer *)

GeoTitles == <<"Download SOFT file", "Parse or load GSE object", "Inspect one sample",
               "Summarize phenotype field", "Verify GSE object">>

AnnoTitles == <<"Step 1 - Download annotation archive", "Step 2 - Extract .tar.gz archive",
                "Step 3 - Load and convert RDA files", "Step 4 - Merge Locations and Other",
                "Step 5 - Export annotation CSV">>

Title(s, k) == IF s = "geo" THEN GeoTitles[k] ELSE AnnoTitles[k]

\* StepTimer.__enter__
EnterLines(title) == <<Info("START", title)>>

\* StepTimer.__exit__: what it logs
ExitLines(title, e) ==
    IF e # "none" THEN <<Rec("ERROR", "FAIL", title)>>
    ELSE <<Info("DELTA", ""), Info("DONE", title)>>

\* a mutant: __exit__ returns True
ExitSuppressesAlways(e) == e # "none"

\* StepTimer.__exit__: whether it suppresses the exception (it returns False or None)
ExitSuppresses(e) == FALSE

-----------------------------------------------------------------------------
(* The data of the GEO pipeline *)

\* contents of an archive file: "none" (no file), "empty" (size 0), "A" (the SOFT
\* archive of the requested series), "B" (the archive of another series), "junk"
SoftContents == {"none", "empty", "A", "B", "junk"}

GsmA1 == [sample_id |-> <<"G", "1">>, has |-> TRUE,
          items |-> << <<"a", ":", " ", "4">>, <<" ", "S", " ", ":", "f", " ">> >>]
GsmA2 == [sample_id |-> <<"G", "2">>, has |-> TRUE,
          items |-> << <<"a", ":", " ", "5">>, <<"c">> >>]
GsmB1 == [sample_id |-> <<"H", "1">>, has |-> FALSE, items |-> <<>>]

\* parsed objects: whether they have .gsms and .metadata, and the sub-records
GseObjects == {"G_A", "G_B", "G_empty", "G_nogsms", "G_nometa"}

Obj(g) ==
    CASE g = "G_A" -> [has_gsms |-> TRUE, gsms |-> <<GsmA1, GsmA2>>, has_metadata |-> TRUE]
      [] g = "G_B" -> [has_gsms |-> TRUE, gsms |-> <<GsmB1>>, has_metadata |-> TRUE]
      [] g = "G_empty" -> [has_gsms |-> TRUE, gsms |-> <<>>, has_metadata |-> TRUE]
      [] g = "G_nogsms" -> [has_gsms |-> FALSE, gsms |-> <<>>, has_metadata |-> TRUE]
      [] g = "G_nometa" -> [has_gsms |-> TRUE, gsms |-> <<GsmA1>>, has_metadata |-> FALSE]

\* contents of the cached-object file: no file, a file joblib cannot load, or an object
GseObjContents == {"none", "corrupt"} \cup GseObjects

\* a mutant: an empty file counts as cached
CacheHitIfExists(content) == content # "none"

\* os.path.exists(p) and os.path.getsize(p) > 0
CacheHit(content) == content # "none" /\ content # "empty"

-----------------------------------------------------------------------------
(* GeoDatasetFetcher *)

\* what GEOparse.get_GEO(geo=..., destdir=data_dir) can do: raise, leave the archive
\* under its default name (<geo_id>_family.soft.gz), or leave it under a name the
\* scan below does not match
ProviderOutcomes == {"raise", "default", "unmatched"}

ProviderWrites(f, outcome) ==
    IF outcome = "default" THEN [f EXCEPT !.friendly = "A"] ELSE f

\* the files of data_dir whose name starts with geo_id and ends with ".soft.gz":
\* the provider's default name and the archive of a series whose identifier has
\* geo_id as a prefix (the canonical name starts with "s00005_")
MatchingFiles(f) == {n \in {"friendly", "other"} : f[n] # "none"}

\* the scan of os.listdir(data_dir): the first matching name, in the directory's
\* order, is moved to soft_path; the set holds one result per possible first match
RenameToCanonical(f) ==
    IF MatchingFiles(f) = {} THEN {f}
    ELSE {[f EXCEPT !.soft = f[n], ![n] = "none"] : n \in MatchingFiles(f)}

\* download_soft
DownloadSoft ==
    /\ script = "geo" /\ pc = "work" /\ step = 1
    /\ IF CacheHit(fs.soft)
       THEN /\ log' = Emit(log, args.log_level, <<Info("SOFT_PRESENT", "")>>)
            /\ UNCHANGED <<fs, ops, exc>>
       ELSE \E outcome \in ProviderOutcomes :
              /\ ops' = Append(ops, <<"get_GEO_download", outcome>>)
              /\ IF outcome = "raise"
                 THEN /\ exc' = "ProviderError"
                      /\ log' = Emit(log, args.log_level, <<Info("DOWNLOADING", "")>>)
                      /\ UNCHANGED fs
                 ELSE /\ fs' \in RenameToCanonical(ProviderWrites(fs, outcome))
                      /\ log' = Emit(log, args.log_level,
                                     <<Info("DOWNLOADING", ""), Info("DOWNLOAD_COMPLETE", "")>>)
                      /\ UNCHANGED exc
    /\ pc' = "exit"
    /\ UNCHANGED <<xvars, hvars, dvars, script, args, step, extracted, gse, raised, runNo, prev>>

\* joblib.load and the assert of load_or_parse_gse: "" when the cached object is
\* used, else the exception the except clause catches
CachedLoadFailure(content) ==
    IF content = "none" THEN "FileNotFoundError(gse_object_path)"
    ELSE IF content = "corrupt" THEN "UnpicklingError"
    ELSE IF ~Obj(content).has_gsms \/ Len(Obj(content).gsms) = 0 THEN "AssertionError"
    ELSE ""

\* a mutant: the fallback after any failure of the filename-based parse
FallsBackOnAny(outcome) == outcome # "ok"

\* except ValueError: only the parser's rejection of the filename form falls back
FallsBackOn(outcome) == outcome = "reject"

ParsedObject(content) == IF content = "A" THEN "G_A" ELSE "G_B"

\* GEOparse.get_GEO(filepath=friendly_path): a parsed object, ValueError ("reject")
\* or another exception
FilenameParseOutcomes(content) ==
    IF content \in {"A", "B"} THEN {"ok", "reject", "error"} ELSE {"reject", "error"}

\* GEOparse.get_GEO(filepath=soft_path, GEO=geo_id)
ExplicitParseOutcomes(content) ==
    IF content \in {"A", "B"} THEN {"ok", "error"} ELSE {"error"}

\* joblib.dump: it writes the file, or raises leaving the file as it was or partly written
DumpOutcomes == {"ok", "raise_clean", "raise_partial"}

\* the two parse attempts on files f: records [gse, exc, lines, ops]
ParseAttempts(f) ==
    UNION {
      IF o1 = "ok"
      THEN {[gse |-> ParsedObject(f.friendly), exc |-> "none", lines |-> <<>>,
             ops |-> << <<"parse_filename", o1>> >>]}
      ELSE IF FallsBackOn(o1)
      THEN {[gse |-> IF o2 = "ok" THEN ParsedObject(f.soft) ELSE "none",
             exc |-> IF o2 = "ok" THEN "none" ELSE "ParseError",
             lines |-> <<Info("FILENAME_PARSE_FAILED", "")>>,
             ops |-> << <<"parse_filename", o1>>, <<"parse_explicit", o2>> >>]
               : o2 \in ExplicitParseOutcomes(f.soft)}
      ELSE {[gse |-> "none", exc |-> IF o1 = "reject" THEN "ValueError" ELSE "ParseError",
             lines |-> <<>>, ops |-> << <<"parse_filename", o1>> >>]}
      : o1 \in FilenameParseOutcomes(f.friendly)}

\* joblib.dump(gse, gse_object_path) after a parse attempt a
AfterDump(f, a) ==
    IF a.exc # "none"
    THEN {[fs |-> f, gse |-> "none", exc |-> a.exc, lines |-> a.lines, ops |-> a.ops]}
    ELSE {[fs |-> [f EXCEPT !.gseobj = IF d = "ok" THEN a.gse
                                       ELSE IF d = "raise_partial" THEN "corrupt" ELSE @],
           gse |-> IF d = "ok" THEN a.gse ELSE "none",
           exc |-> IF d = "ok" THEN "none" ELSE "OSError",
           lines |-> a.lines \o (IF d = "ok" THEN <<Info("RESAVED", "")>> ELSE <<>>),
           ops |-> Append(a.ops, <<"dump", d>>)]
            : d \in DumpOutcomes}

\* the part of load_or_parse_gse after a cache miss: the friendly copy, the parse
\* attempts, the dump
ParseStage(f) ==
    IF f.friendly = "none" /\ f.soft = "none"
    THEN {[fs |-> f, gse |-> "none", exc |-> "FileNotFoundError(soft_path)", lines |-> <<>>,
           ops |-> << <<"copy", "raise">> >>]}
    ELSE LET copied == f.friendly = "none"
             f1 == IF copied THEN [f EXCEPT !.friendly = f.soft] ELSE f
             pre == IF copied THEN [lines |-> <<Info("FRIENDLY_COPY", "")>>,
                                     ops |-> << <<"copy", "ok">> >>]
                    ELSE [lines |-> <<>>, ops |-> <<>>]
         IN {[fs |-> r.fs, gse |-> r.gse, exc |-> r.exc,
              lines |-> pre.lines \o r.lines, ops |-> pre.ops \o r.ops]
               : r \in UNION {AfterDump(f1, a) : a \in ParseAttempts(f1)}}

\* a mutant: a failed load of the cached object propagates
LoadOrParseNoCatch(f) ==
    IF CachedLoadFailure(f.gseobj) = ""
    THEN {[fs |-> f, gse |-> f.gseobj, exc |-> "none",
           lines |-> <<Info("TRY_CACHE", ""), Info("USING_CACHED", "")>>,
           ops |-> << <<"joblib_load", "ok">> >>]}
    ELSE {[fs |-> f, gse |-> "none", exc |-> CachedLoadFailure(f.gseobj),
           lines |-> <<Info("TRY_CACHE", "")>>,
           ops |-> << <<"joblib_load", CachedLoadFailure(f.gseobj)>> >>]}

\* load_or_parse_gse on files f: the possible results [fs, gse, exc, lines, ops]
LoadOrParse(f) ==
    IF CachedLoadFailure(f.gseobj) = ""
    THEN {[fs |-> f, gse |-> f.gseobj, exc |-> "none",
           lines |-> <<Info("TRY_CACHE", ""), Info("USING_CACHED", "")>>,
           ops |-> << <<"joblib_load", "ok">> >>]}
    ELSE {[fs |-> r.fs, gse |-> r.gse, exc |-> r.exc,
           lines |-> <<Info("TRY_CACHE", ""), Info("CACHE_MISS", CachedLoadFailure(f.gseobj))>>
                        \o r.lines,
           ops |-> << <<"joblib_load", CachedLoadFailure(f.gseobj)>> >> \o r.ops]
            : r \in ParseStage(f)}

LoadOrParseGse ==
    /\ script = "geo" /\ pc = "work" /\ step = 2
    /\ \E r \in LoadOrParse(fs) :
         /\ fs' = r.fs
         /\ gse' = r.gse
         /\ exc' = r.exc
         /\ log' = Emit(log, args.log_level, r.lines)
         /\ ops' = ops \o r.ops
    /\ pc' = "exit"
    /\ UNCHANGED <<xvars, hvars, dvars, script, args, step, extracted, raised, runNo, prev>>

\* list(...)[sample_index]: Python accepts -n .. n-1
ValidIndex(idx, n) == -n <= idx /\ idx < n

\* inspect_sample: [exc, lines]
Inspect(g, idx) ==
    IF ~Obj(g).has_gsms THEN [exc |-> "AttributeError", lines |-> <<>>]
    ELSE IF ~ValidIndex(idx, Len(Obj(g).gsms)) THEN [exc |-> "IndexError", lines |-> <<>>]
    ELSE LET gsm == Obj(g).gsms[IF idx < 0 THEN Len(Obj(g).gsms) + idx + 1 ELSE idx + 1]
         IN [exc |-> "none",
             lines |-> <<InfoData("SAMPLE", gsm.sample_id)>>
                          \o (IF gsm.has THEN <<Info("SAMPLE_META", "characteristics_ch1")>>
                              ELSE <<>>)
                          \o <<Info("BLANK", "")>>]

InspectSample ==
    /\ script = "geo" /\ pc = "work" /\ step = 3
    /\ exc' = Inspect(gse, args.sample_index).exc
    /\ log' = Emit(log, args.log_level, Inspect(gse, args.sample_index).lines)
    /\ pc' = "exit"
    /\ UNCHANGED <<xvars, hvars, dvars, script, args, step, fs, extracted, gse, ops, raised, runNo, prev>>

\* the lines summarize_phenotypes logs before the export: a header, one per label
TallyLines(gsms) ==
    <<Info("SUMMARY", "characteristics_ch1")>>
        \o [i \in 1..Len(Tally(gsms)) |-> InfoData("TALLY", Tally(gsms)[i])]
        \o <<Info("BLANK", "")>>

\* df.to_csv(pheno_csv): it writes the file or raises
CsvWriteOutcomes == {"ok", "raise"}

\* summarize_phenotypes
SummarizePhenotypes ==
    /\ script = "geo" /\ pc = "work" /\ step = 4
    /\ \E w \in CsvWriteOutcomes :
         IF w = "ok"
         THEN /\ fs' = [fs EXCEPT !.csv = Csv(SummarizeRows(Obj(gse).gsms))]
              /\ log' = Emit(log, args.log_level,
                             TallyLines(Obj(gse).gsms) \o <<Info("CSV_SAVED", "")>>)
              /\ UNCHANGED exc
         ELSE /\ exc' = "OSError"
              /\ log' = Emit(log, args.log_level, TallyLines(Obj(gse).gsms))
              /\ UNCHANGED fs
    /\ pc' = "exit"
    /\ UNCHANGED <<xvars, hvars, dvars, script, args, step, extracted, gse, ops, raised, runNo, prev>>

\* a mutant: verify_gse_object without its try/except
VerifyNoCatch(content) ==
    IF content = "none"
    THEN [exc |-> "none",
          lines |-> <<Info("VERIFY", ""), Info("NOT_FOUND", ""), Info("INSPECTION_COMPLETE", "")>>]
    ELSE IF content = "corrupt"
    THEN [exc |-> "UnpicklingError", lines |-> <<Info("VERIFY", ""), Info("FILE_EXISTS", "")>>]
    ELSE IF ~Obj(content).has_gsms
    THEN [exc |-> "AttributeError",
          lines |-> <<Info("VERIFY", ""), Info("FILE_EXISTS", ""), Info("LOADED", "")>>]
    ELSE IF ~Obj(content).has_metadata
    THEN [exc |-> "AttributeError",
          lines |-> <<Info("VERIFY", ""), Info("FILE_EXISTS", ""), Info("LOADED", ""),
                      Info("SAMPLES_LOADED", "")>>]
    ELSE [exc |-> "none",
          lines |-> <<Info("VERIFY", ""), Info("FILE_EXISTS", ""), Info("LOADED", ""),
                      Info("SAMPLES_LOADED", ""), Info("META_KEYS", ""),
                      Info("INSPECTION_COMPLETE", "")>>]

\* verify_gse_object on a cached-object file: [exc, lines]
Verify(content) ==
    [exc |-> "none",
     lines |->
        <<Info("VERIFY", "")>>
        \o (IF content = "none" THEN <<Info("NOT_FOUND", "")>>
            ELSE <<Info("FILE_EXISTS", "")>>
                 \o (IF content = "corrupt" THEN <<Info("VERIFY_LOAD_FAILED", "UnpicklingError")>>
                     ELSE <<Info("LOADED", "")>>
                          \o (IF ~Obj(content).has_gsms
                              THEN <<Info("VERIFY_LOAD_FAILED", "AttributeError")>>
                              ELSE <<Info("SAMPLES_LOADED", "")>>
                                   \o (IF ~Obj(content).has_metadata
                                       THEN <<Info("VERIFY_LOAD_FAILED", "AttributeError")>>
                                       ELSE <<Info("META_KEYS", "")>>))))
        \o <<Info("INSPECTION_COMPLETE", "")>>]

VerifyGseObject ==
    /\ script = "geo" /\ pc = "work" /\ step = 5
    /\ exc' = Verify(fs.gseobj).exc
    /\ log' = Emit(log, args.log_level, Verify(fs.gseobj).lines)
    /\ ops' = IF fs.gseobj # "none"
              THEN Append(ops, <<"joblib_load", IF fs.gseobj = "corrupt" THEN "UnpicklingError"
                                                ELSE "ok">>)
              ELSE ops
    /\ pc' = "exit"
    /\ UNCHANGED <<xvars, hvars, dvars, script, args, step, fs, extracted, gse, raised, runNo, prev>>

-----------------------------------------------------------------------------
(* AnnotationInspector *)

\* File names are shortened: "L" stands for Locations.rda, "O" for Other.rda and
\* "p" for the package directory of the archive.
ArchiveIds == {"T_ok", "T_noother", "T_evil", "T_sib"}

\* the entries of the archives the annotation pipeline is run on
ArchiveEntries(t) ==
    CASE t = "T_ok" -> << <<"p", "/", "L">>, <<"p", "/", "O">> >>
      [] t = "T_noother" -> << <<"p", "/", "L">> >>
      [] t = "T_evil" -> << <<"p", "/", "L">>, <<".", ".", "/", "f">> >>
      [] t = "T_sib" -> << <<".", ".", "/", "d", "e", "/", "L">>, <<"p", "/", "O">> >>

\* contents of tar_path: no file, an empty file, bytes that are no tar.gz, an archive
TarContents == {"none", "empty", "junk"} \cup ArchiveIds

\* requests.get + raise_for_status: a failed request, a non-success status, or a
\* body (which may be empty, or anything the server sends)
HttpOutcomes == {"conn_error", "http_error"} \cup (TarContents \ {"none"})

\* a mutant: the body of a non-success response is written before the status is checked
DownloadIfNeededWritesFirst ==
    /\ script = "anno" /\ pc = "work" /\ step = 1
    /\ IF CacheHit(fs.tar)
       THEN UNCHANGED <<fs, ops, exc>>
       ELSE \E resp \in HttpOutcomes :
              /\ ops' = Append(ops, <<"http_get", resp>>)
              /\ IF resp = "conn_error" THEN exc' = "ConnectionError" /\ UNCHANGED fs
                 ELSE IF resp = "http_error"
                 THEN exc' = "HTTPError" /\ fs' = [fs EXCEPT !.tar = "junk"]
                 ELSE fs' = [fs EXCEPT !.tar = resp] /\ UNCHANGED exc
    /\ pc' = "exit"
    /\ UNCHANGED <<xvars, hvars, dvars, script, args, step, extracted, gse, log, raised, runNo, prev>>

\* _download_if_needed
DownloadIfNeeded ==
    /\ script = "anno" /\ pc = "work" /\ step = 1
    /\ IF CacheHit(fs.tar)
       THEN UNCHANGED <<fs, ops, exc>>
       ELSE \E resp \in HttpOutcomes :
              /\ ops' = Append(ops, <<"http_get", resp>>)
              /\ IF resp = "conn_error" THEN exc' = "ConnectionError" /\ UNCHANGED fs
                 ELSE IF resp = "http_error" THEN exc' = "HTTPError" /\ UNCHANGED fs
                 ELSE fs' = [fs EXCEPT !.tar = resp] /\ UNCHANGED exc
    /\ pc' = "exit"
    /\ UNCHANGED <<xvars, hvars, dvars, script, args, step, extracted, gse, log, raised, runNo, prev>>

\* step 2: tarfile.open and _safe_extract
ExtractArchive ==
    /\ script = "anno" /\ pc = "work" /\ step = 2
    /\ IF fs.tar \notin ArchiveIds
       THEN /\ exc' = (IF fs.tar = "none" THEN "FileNotFoundError(tar_path)" ELSE "ReadError")
            /\ UNCHANGED extracted
       ELSE LET r == SafeExtract(ArchiveEntries(fs.tar), ExtractDir)
            IN /\ exc' = (IF r.raised THEN "PathTraversal" ELSE "none")
               /\ extracted' = extracted \cup r.written
    /\ pc' = "exit"
    /\ UNCHANGED <<xvars, hvars, dvars, script, args, step, fs, gse, log, ops, raised, runNo, prev>>

\* the last component of a path
BaseName(path) == LET cs == Split(path) IN cs[Len(cs)]

\* _discover_rda: os.walk(extract_dir) finds a file whose lower-cased name is the one
\* looked for
Discovered(files, low) ==
    \E f \in files : Inside(f) /\ Lower(BaseName(f)) = low

DiscoverRdaOk(files) == Discovered(files, <<"l">>) /\ Discovered(files, <<"o">>)

\* rpy2 loading the two tables: it converts them or raises
RdaLoadOutcomes == {"ok", "raise"}

\* step 3: _discover_rda and _load_rda_to_dfs
LoadRda ==
    /\ script = "anno" /\ pc = "work" /\ step = 3
    /\ IF ~DiscoverRdaOk(extracted)
       THEN exc' = "FileNotFoundError(rda)" /\ UNCHANGED ops
       ELSE \E o \in RdaLoadOutcomes :
              /\ exc' = (IF o = "ok" THEN "none" ELSE "RRuntimeError")
              /\ ops' = Append(ops, <<"rpy2_load", o>>)
    /\ pc' = "exit"
    /\ UNCHANGED <<xvars, hvars, dvars, script, args, step, fs, extracted, gse, log, raised, runNo, prev>>

\* step 4: _merge_annotation_frames
MergeFrames ==
    /\ script = "anno" /\ pc = "work" /\ step = 4
    /\ pc' = "exit"
    /\ UNCHANGED <<xvars, hvars, dvars, script, args, step, fs, extracted, gse, log, ops, exc, raised,
                   runNo, prev>>

\* step 5: merged.to_csv(output_csv)
ExportCsv ==
    /\ script = "anno" /\ pc = "work" /\ step = 5
    /\ fs' = [fs EXCEPT !.outcsv = "merged"]
    /\ log' = Emit(log, args.log_level, <<Info("SAVED", "")>>)
    /\ pc' = "exit"
    /\ UNCHANGED <<xvars, hvars, dvars, script, args, step, extracted, gse, ops, exc, raised, runNo, prev>>

-----------------------------------------------------------------------------
(* main of the two scripts, and AnnotationInspector.run *)

\* GEO main before the first step: the run header and, unless --no-monitor, the report
GeoStart ==
    /\ script = "geo" /\ pc = "start"
    /\ log' = Emit(log, args.log_level,
                   <<Info("RUN_STARTED", ""), Info("LOG_FILE", "")>>
                       \o (IF ~args.no_monitor THEN ReportLines ELSE <<>>))
    /\ pc' = "enter"
    /\ step' = 1
    /\ UNCHANGED <<xvars, hvars, dvars, script, args, fs, extracted, gse, ops, exc, raised, runNo, prev>>

\* annotation main before the first step: the header, the report, and the
\* constructor's lines (the environment and a second report)
AnnoStart ==
    /\ script = "anno" /\ pc = "start"
    /\ log' = Emit(log, args.log_level,
                   <<Info("STARTED_AT", "")>> \o ReportLines
                       \o <<Info("SCRIPT_STARTED", ""), Info("ENV", "data_dir"),
                            Info("ENV", "results_dir"), Info("ENV", "url"),
                            Info("ENV", "process_rda"), Info("ENV", "rpy2_available")>>
                       \o ReportLines)
    /\ pc' = "enter"
    /\ step' = 1
    /\ UNCHANGED <<xvars, hvars, dvars, script, args, fs, extracted, gse, ops, exc, raised, runNo, prev>>

\* StepTimer.__enter__
StepEnter ==
    /\ pc = "enter"
    /\ log' = Emit(log, args.log_level, EnterLines(Title(script, step)))
    /\ pc' = "work"
    /\ UNCHANGED <<xvars, hvars, dvars, script, args, step, fs, extracted, gse, ops, exc, raised, runNo, prev>>

\* the number of StepTimer blocks of main / of run
LastStep == 5

\* a mutant: the inspection block is left out of the sequence
AfterStepSkipsInspect(s, k) ==
    IF k = LastStep THEN [pc |-> "finish", step |-> k]
    ELSE IF s = "anno" /\ k = 2 THEN [pc |-> "branch", step |-> k]
    ELSE IF s = "geo" /\ k = 2 THEN [pc |-> "enter", step |-> 4]
    ELSE [pc |-> "enter", step |-> k + 1]

\* where control goes after a with block that did not raise
AfterStep(s, k) ==
    IF k = LastStep THEN [pc |-> "finish", step |-> k]
    ELSE IF s = "anno" /\ k = 2 THEN [pc |-> "branch", step |-> k]
    ELSE [pc |-> "enter", step |-> k + 1]

\* StepTimer.__exit__ and the end of the with block
StepExit ==
    /\ pc = "exit"
    /\ log' = Emit(log, args.log_level, ExitLines(Title(script, step), exc))
    /\ IF exc # "none" /\ ~ExitSuppresses(exc)
       THEN /\ pc' = "except"
            /\ UNCHANGED <<step, exc>>
       ELSE /\ pc' = AfterStep(script, step).pc
            /\ step' = AfterStep(script, step).step
            /\ exc' = "none"
    /\ UNCHANGED <<xvars, hvars, dvars, script, args, fs, extracted, gse, ops, raised, runNo, prev>>

\* `if self.process_rda and self.rpy2_ok`
RunsRdaSteps(a) == a.process_rda /\ a.rpy2_ok

\* AnnotationInspector.run after step 2
AnnoBranch ==
    /\ script = "anno" /\ pc = "branch"
    /\ IF RunsRdaSteps(args)
       THEN /\ pc' = "enter"
            /\ step' = 3
            /\ UNCHANGED log
       ELSE /\ pc' = "finish"
            /\ log' = Emit(log, args.log_level,
                           IF args.process_rda /\ ~args.rpy2_ok
                           THEN <<Info("RPY2_MISSING", "")>> ELSE <<>>)
            /\ UNCHANGED step
    /\ UNCHANGED <<xvars, hvars, dvars, script, args, fs, extracted, gse, ops, exc, raised, runNo, prev>>

\* GEO main: the except clause logs and re-raises
GeoExcept ==
    /\ script = "geo" /\ pc = "except"
    /\ log' = Emit(log, args.log_level, <<Info("EXEC_FAILED", exc)>>)
    /\ raised' = exc
    /\ pc' = "done"
    /\ UNCHANGED <<xvars, hvars, dvars, script, args, step, fs, extracted, gse, ops, exc, runNo, prev>>

\* GEO main after the last step
GeoFinish ==
    /\ script = "geo" /\ pc = "finish"
    /\ log' = Emit(log, args.log_level, <<Info("COMPLETED_ALL", "")>>)
    /\ pc' = "done"
    /\ UNCHANGED <<xvars, hvars, dvars, script, args, step, fs, extracted, gse, ops, exc, raised, runNo, prev>>

\* annotation main: the except clause logs and re-raises, the finally clause logs
AnnoExcept ==
    /\ script = "anno" /\ pc = "except"
    /\ log' = Emit(log, args.log_level,
                   <<Rec("ERROR", "UNHANDLED", exc), Info("COMPLETED_AT", "")>>)
    /\ raised' = exc
    /\ pc' = "done"
    /\ UNCHANGED <<xvars, hvars, dvars, script, args, step, fs, extracted, gse, ops, exc, runNo, prev>>

\* the end of AnnotationInspector.run and main's finally clause
AnnoFinish ==
    /\ script = "anno" /\ pc = "finish"
    /\ log' = Emit(log, args.log_level,
                   <<Info("FINISHED_OK", ""), Info("COMPLETED_AT", "")>>)
    /\ pc' = "done"
    /\ UNCHANGED <<xvars, hvars, dvars, script, args, step, fs, extracted, gse, ops, exc, raised, runNo, prev>>

\* the script is run again with the same command line on the disk the run left;
\* logging.basicConfig(filemode="w") truncates the log file
Rerun ==
    /\ pc = "done"
    /\ runNo < MaxRuns
    /\ prev' = [ok |-> raised = "none", csv |-> fs.csv]
    /\ runNo' = runNo + 1
    /\ pc' = "start"
    /\ step' = 0
    /\ gse' = "none"
    /\ log' = <<>>
    /\ ops' = <<>>
    /\ exc' = "none"
    /\ raised' = "none"
    /\ UNCHANGED <<xvars, hvars, dvars, script, args, fs, extracted>>

XIdle ==
    /\ xArchive = <<>>
    /\ xPc = "done"
    /\ xRaised = FALSE
    /\ xExtracted = {}

\* the sample indices the GEO script is run with (the largest series has 2 samples)
SampleIndices == {0, 2}

LogLevels == {"DEBUG", "INFO", "WARNING", "ERROR"}

GeoInit ==
    /\ script = "geo"
    /\ args \in [no_monitor : BOOLEAN, sample_index : SampleIndices, process_rda : {FALSE},
                 rpy2_ok : {FALSE}, log_level : {"INFO"}]
    /\ fs \in [soft : {"none", "empty", "A", "junk"}, friendly : {"none", "A", "junk"},
               other : {"none", "empty", "B"}, gseobj : GseObjContents,
               csv : {NoCsv}, tar : {"none"}, outcsv : {"none"}]

AnnoInit ==
    /\ script = "anno"
    /\ args \in [no_monitor : {FALSE}, sample_index : {0}, process_rda : BOOLEAN,
                 rpy2_ok : BOOLEAN, log_level : LogLevels]
    /\ fs \in [soft : {"none"}, friendly : {"none"}, other : {"none"}, gseobj : {"none"},
               csv : {NoCsv}, tar : TarContents, outcsv : {"none"}]

Init ==
    /\ XIdle
    /\ HIdle
    /\ DIdle
    /\ GeoInit \/ AnnoInit
    /\ pc = "start"
    /\ step = 0
    /\ extracted = {}
    /\ gse = "none"
    /\ log = <<>>
    /\ ops = <<>>
    /\ exc = "none"
    /\ raised = "none"
    /\ runNo = 1
    /\ prev = [ok |-> FALSE, csv |-> NoCsv]

Next ==
    \/ GeoStart
    \/ AnnoStart
    \/ StepEnter
    \/ DownloadSoft
    \/ LoadOrParseGse
    \/ InspectSample
    \/ SummarizePhenotypes
    \/ VerifyGseObject
    \/ DownloadIfNeeded
    \/ ExtractArchive
    \/ LoadRda
    \/ MergeFrames
    \/ ExportCsv
    \/ StepExit
    \/ AnnoBranch
    \/ GeoExcept
    \/ GeoFinish
    \/ AnnoExcept
    \/ AnnoFinish
    \/ Rerun

Spec == Init /\ [][Next]_vars

-----------------------------------------------------------------------------
(* Claims *)

\* the records of a log with one of the given tags
WithTags(l, tags) == LET Test(r) == r.tag \in tags IN SelectSeq(l, Test)

\* the StepTimer lines of a log: START and the closing lines DONE and FAIL
StepLines(l) == WithTags(l, {"START", "DONE", "FAIL"})

Logged(l, tag) == \E i \in 1..Len(l) : l[i].tag = tag

\* the calls a step added to ops, the records it added to log
NewOps == SubSeq(ops', Len(ops) + 1, Len(ops'))
NewLog == SubSeq(log', Len(log) + 1, Len(log'))

Called(o, call) == \E i \in 1..Len(o) : o[i][1] = call

\* C1: _safe_extract raises and extracts no entry at all if and only if at least one
\* entry's resolved output path (dest joined with the entry name, made absolute and
\* normalised) lies outside the destination directory; when every resolved path
\* stays within it, all entries are extracted. (The claim as stated; the code
\* accepts a path in a sibling directory whose name starts with the destination's.)
C1_GuardRejectsExactlyEscapes ==
    xPc = "done" =>
        LET escapes == \E i \in 1..Len(xArchive) : ~Inside(Resolved(xArchive[i]))
        IN /\ xRaised <=> escapes
           /\ xRaised => xExtracted = {}
           /\ ~xRaised => xExtracted = {Resolved(xArchive[i]) : i \in 1..Len(xArchive)}

\* C2: in both scripts the download step makes no network call and leaves the files
\* unchanged whenever the target cache file exists with size > 0, whatever its
\* content, and makes exactly one fetch call when the file is missing or has size 0.
C2_CacheHitSkipsFetch ==
    [][(pc = "work" /\ step = 1 /\ pc' = "exit") =>
          LET target == IF script = "geo" THEN "soft" ELSE "tar"
              fetch == IF script = "geo" THEN "get_GEO_download" ELSE "http_get"
          IN IF fs[target] \notin {"none", "empty"}
             THEN ops' = ops /\ fs' = fs /\ exc' = "none"
             ELSE Len(NewOps) = 1 /\ NewOps[1][1] = fetch]_vars

\* a download step that trusted a non-empty file that is no archive
C2_Witness ==
    /\ script = "geo" /\ pc = "exit" /\ step = 1
    /\ fs.soft = "junk" /\ ops = <<>> /\ Logged(log, "SOFT_PRESENT")

LoadFailures == {"FileNotFoundError(gse_object_path)", "UnpicklingError", "AssertionError"}

\* C5: in load_or_parse_gse every failure of the cached-object load (file missing,
\* unreadable, object without sub-records collection, empty collection) is a cache
\* miss: it is logged, does not propagate, and the function goes on to the parse
\* from the archive; the cached object is returned without parsing only when it
\* loads and has a non-empty collection.
C5_LoadFailureIsCacheMiss ==
    [][(script = "geo" /\ pc = "work" /\ step = 2 /\ pc' = "exit") =>
          LET usable == /\ fs.gseobj \in GseObjects
                        /\ Obj(fs.gseobj).has_gsms
                        /\ Len(Obj(fs.gseobj).gsms) > 0
          IN IF usable
             THEN /\ gse' = fs.gseobj /\ exc' = "none" /\ fs' = fs
                  /\ NewOps = << <<"joblib_load", "ok">> >>
             ELSE /\ Logged(NewLog, "CACHE_MISS")
                  /\ exc' \notin LoadFailures
                  /\ Len(NewOps) >= 2
                  /\ NewOps[1][1] = "joblib_load" /\ NewOps[1][2] \in LoadFailures
                  /\ NewOps[2][1] \in {"copy", "parse_filename"}]_vars

\* a cached object with an empty collection was passed over and the archive parsed
C5_Witness ==
    /\ script = "geo" /\ pc = "exit" /\ step = 2 /\ gse = "G_A"
    /\ \E i \in 1..Len(ops) : ops[i] = <<"joblib_load", "AssertionError">>
    /\ \E i \in 1..Len(log) : log[i].tag = "CACHE_MISS" /\ log[i].arg = "AssertionError"

\* C6: on a cache miss the filename-based parse is tried first; the
\* explicit-identifier parse is attempted only after the parser rejected the
\* filename-based form and whenever it did; a normal return after a cache miss has
\* written the freshly parsed object to the cache path; when both parse attempts
\* fail the exception propagates and the cache file is unchanged.
C6_ParseFallbackAndResave ==
    [][(script = "geo" /\ pc = "work" /\ step = 2 /\ pc' = "exit"
            /\ NewOps[1] # <<"joblib_load", "ok">>) =>
          /\ \A i \in 1..Len(NewOps) :
                /\ NewOps[i][1] = "parse_explicit" =>
                      i > 1 /\ NewOps[i - 1] = <<"parse_filename", "reject">>
                /\ NewOps[i] = <<"parse_filename", "reject">> =>
                      i < Len(NewOps) /\ NewOps[i + 1][1] = "parse_explicit"
                /\ NewOps[i][1] = "parse_filename" =>
                      \A j \in 1..(i - 1) : NewOps[j][1] \notin {"parse_explicit", "dump"}
          /\ exc' = "none" =>
                /\ NewOps[Len(NewOps)] = <<"dump", "ok">>
                /\ gse' \in GseObjects
                /\ fs'.gseobj = gse'
                /\ \E i \in 1..Len(NewOps) : NewOps[i][1] \in {"parse_filename", "parse_explicit"}
                                                /\ NewOps[i][2] = "ok"
          /\ (\E i \in 1..Len(NewOps) : NewOps[i] = <<"parse_explicit", "error">>) =>
                exc' # "none" /\ fs'.gseobj = fs.gseobj]_vars

\* the explicit-identifier parse succeeded after a rejection and its object was saved
C6_Witness ==
    /\ script = "geo" /\ pc = "exit" /\ step = 2 /\ exc = "none"
    /\ \E i \in 1..Len(ops) : ops[i] = <<"parse_explicit", "ok">>
    /\ fs.gseobj = gse /\ gse \in GseObjects

Last(q) == q[Len(q)]

\* every closing line directly follows the START line of the same title, every START
\* line but the last is directly followed by its closing line, no title is closed twice
Bracketed(sl) ==
    /\ \A i \in 1..Len(sl) :
          /\ (sl[i].tag = "START" /\ i < Len(sl)) =>
                sl[i + 1].tag \in {"DONE", "FAIL"} /\ sl[i + 1].arg = sl[i].arg
          /\ sl[i].tag \in {"DONE", "FAIL"} =>
                i > 1 /\ sl[i - 1].tag = "START" /\ sl[i - 1].arg = sl[i].arg
    /\ \A i, j \in 1..Len(sl) :
          (i # j /\ sl[i].tag # "START" /\ sl[j].tag # "START") => sl[i].arg # sl[j].arg

\* a FAIL line is the last StepTimer line, the exception it reports is in flight or has
\* left main unchanged, and no step was retried or continued after it
FailPropagates(sl) ==
    /\ (pc = "except" \/ (pc = "done" /\ raised # "none")) =>
          /\ sl # <<>> /\ Last(sl) = Rec("ERROR", "FAIL", Title(script, step))
          /\ exc # "none"
          /\ pc = "done" => raised = exc
    /\ \A i \in 1..Len(sl) : sl[i].tag = "FAIL" =>
          i = Len(sl) /\ pc \in {"except", "done"} /\ exc # "none"

\* the StepTimer lines of the log say where main is
LinesFollowControl(sl) ==
    /\ pc = "start" => sl = <<>>
    /\ pc \in {"work", "exit"} => sl # <<>> /\ Last(sl) = Info("START", Title(script, step))
    /\ (pc = "enter" /\ step > 1) =>
          sl # <<>> /\ Last(sl) = Info("DONE", Title(script, step - 1))
    /\ (pc \in {"branch", "finish"} \/ (pc = "done" /\ raised = "none")) =>
          sl # <<>> /\ Last(sl) = Info("DONE", Title(script, step))
    /\ \A i \in 1..Len(log) : log[i].tag = "DONE" => i > 1 /\ log[i - 1].tag = "DELTA"

\* C3 as stated: for every step entered through StepTimer a START line with the title
\* is logged first and then exactly one closing line with the same title: DONE (with
\* duration and resource delta) when the work returns, FAIL when it raises; after
\* FAIL the exception is re-raised unchanged and no DONE line is logged.
C3_EveryStepBracketedInLog ==
    /\ Bracketed(StepLines(log))
    /\ LinesFollowControl(StepLines(log))
    /\ FailPropagates(StepLines(log))

\* C3 as amended: the same while the root logger admits INFO records (always in the
\* GEO script, --log-level DEBUG or INFO in the annotation script); at WARNING or
\* ERROR the START and DONE lines are dropped, a failing step logs only its FAIL
\* line, and the exception is still re-raised unchanged.
C3_StepBracketedWhenInfoAdmitted ==
    IF LevelNo(args.log_level) <= LevelNo("INFO")
    THEN C3_EveryStepBracketedInLog
    ELSE /\ ~Logged(log, "START") /\ ~Logged(log, "DONE") /\ ~Logged(log, "DELTA")
         /\ FailPropagates(StepLines(log))
         /\ Len(StepLines(log)) <= 1

\* a step raised after START: FAIL closed it and the exception left main
C3_Witness ==
    /\ script = "anno" /\ pc = "done" /\ raised = "PathTraversal"
    /\ StepLines(log) = <<Info("START", AnnoTitles[1]), Info("DONE", AnnoTitles[1]),
                          Info("START", AnnoTitles[2]), Rec("ERROR", "FAIL", AnnoTitles[2])>>

\* C4 as stated: after a run of the GEO pipeline that completed all five steps, a
\* second run on the resulting disk makes no network call in any step (download_soft
\* hits the cache, load_or_parse_gse loads the cached object) and writes the same CSV.
C4_SecondRunOffline ==
    (script = "geo" /\ runNo > 1 /\ prev.ok) =>
        /\ ~Called(ops, "get_GEO_download")
        /\ ~Called(ops, "copy") /\ ~Called(ops, "parse_filename")
        /\ ~Called(ops, "parse_explicit")
        /\ (pc = "done" /\ raised = "none") => fs.csv = prev.csv

\* C8: verify_gse_object never raises: with the cache file missing, failing to load,
\* or holding an object without the sub-record collection or the metadata, the
\* failure is logged, the 'inspection complete' line is logged last, the function
\* returns, and main goes on to log that all steps completed.
C8_VerifyNeverRaises ==
    /\ \A c \in GseObjContents :
          /\ Verify(c).exc = "none"
          /\ Last(Verify(c).lines).tag = "INSPECTION_COMPLETE"
          /\ c = "none" => Logged(Verify(c).lines, "NOT_FOUND")
          /\ (c = "corrupt" \/ (c \in GseObjects
                                  /\ (~Obj(c).has_gsms \/ ~Obj(c).has_metadata))) =>
                Logged(Verify(c).lines, "VERIFY_LOAD_FAILED")
    /\ (script = "geo" /\ step = 5) => pc # "except" /\ raised = "none"
    /\ (script = "geo" /\ step = 5 /\ pc \in {"exit", "finish", "done"}) =>
          exc = "none" /\ Logged(log, "INSPECTION_COMPLETE")
    /\ (script = "geo" /\ step = 5 /\ pc = "done") => Last(log).tag = "COMPLETED_ALL"

\* the cached object lacked its metadata: the failure was logged and main completed
C8_Witness ==
    /\ script = "geo" /\ pc = "done" /\ step = 5 /\ fs.gseobj = "G_nometa"
    /\ Logged(log, "VERIFY_LOAD_FAILED") /\ Logged(log, "INSPECTION_COMPLETE")
    /\ Last(log).tag = "COMPLETED_ALL"

\* C9: in every run of the GEO pipeline the five steps start in the fixed order, each
\* at most once and never going back; a step starts only after the preceding one
\* completed normally; once a step raises no later step starts, the failure is logged
\* and the exception leaves main; 'Completed all steps' is logged only after all five.
C9_StepsInFixedOrder ==
    script = "geo" =>
        LET starts == WithTags(log, {"START"})
            dones == WithTags(log, {"DONE"})
            sl == StepLines(log)
        IN /\ Len(starts) <= Len(GeoTitles)
           /\ \A i \in 1..Len(starts) : starts[i].arg = GeoTitles[i]
           /\ \A i \in 1..Len(sl) : (sl[i].tag = "START" /\ sl[i].arg # GeoTitles[1]) =>
                 /\ i > 1 /\ sl[i - 1].tag = "DONE"
                 /\ \E k \in 2..Len(GeoTitles) :
                       sl[i].arg = GeoTitles[k] /\ sl[i - 1].arg = GeoTitles[k - 1]
           /\ \A i \in 1..Len(sl) : sl[i].tag = "FAIL" => i = Len(sl)
           /\ Logged(log, "FAIL") => pc \in {"except", "done"}
           /\ (Logged(log, "FAIL") /\ pc = "done") =>
                 /\ raised # "none" /\ raised = exc
                 /\ Last(log) = Info("EXEC_FAILED", raised)
           /\ raised # "none" => Logged(log, "FAIL")
           /\ Logged(log, "COMPLETED_ALL") =>
                 /\ raised = "none"
                 /\ Len(dones) = Len(GeoTitles)
                 /\ \A i \in 1..Len(dones) : dones[i].arg = GeoTitles[i]

\* the third step raised: two steps completed, no later step started, main raised
C9_Witness ==
    /\ script = "geo" /\ pc = "done" /\ raised = "IndexError"
    /\ Len(WithTags(log, {"START"})) = 3 /\ Len(WithTags(log, {"DONE"})) = 2
    /\ ~Logged(log, "COMPLETED_ALL")

\* C10 as stated: when RDA processing is requested and the bridge is unavailable, the
\* download and extraction steps still run, a warning is logged, none of the load,
\* merge and export steps starts, no merged CSV is written and the run finishes
\* without raising; the three steps run, in order, only when processing is requested
\* and the bridge is available.
C10_SkipWithWarning ==
    script = "anno" =>
        /\ step >= 3 => args.process_rda /\ args.rpy2_ok
        /\ (args.process_rda /\ ~args.rpy2_ok /\ pc = "branch") => exc = "none" /\ step = 2
        /\ (args.process_rda /\ ~args.rpy2_ok /\ pc \in {"finish", "done"} /\ raised = "none"
               /\ exc = "none") =>
              /\ step = 2
              /\ fs.outcsv = "none"
              /\ ~Called(ops, "rpy2_load")
              /\ Logged(log, "RPY2_MISSING")

\* the entries of a sub-record's field (none when the field is absent)
FieldOf(g) == IF g.has THEN g.items ELSE <<>>

\* the text before the first colon, trimmed and lower-cased; the text after it, trimmed
KeyText(item) == Lower(Strip(SubSeq(item, 1, FirstColon(item) - 1)))
ValueText(item) == Strip(SubSeq(item, FirstColon(item) + 1, Len(item)))

\* the number of entries equal to label over all sub-records
Occurrences(gsms, label) ==
    Cardinality({<<i, j>> \in (1..Len(gsms)) \X (1..(MaxItems + 1)) :
                    j <= Len(FieldOf(gsms[i])) /\ FieldOf(gsms[i])[j] = label})

\* one row per sub-record; only the identifier and the keys of the entries with a
\* colon are columns; every entry, with a colon or not, is in the tally
RowsAndTally ==
    /\ Len(hRows) = Len(hGsms)
    /\ \A i \in 1..Len(hGsms) :
          /\ DictHas(hRows[i], SampleIdKey)
          /\ \A c \in 1..Len(hRows[i]) :
                \/ hRows[i][c][1] = SampleIdKey
                \/ \E j \in 1..Len(FieldOf(hGsms[i])) :
                      /\ HasColon(FieldOf(hGsms[i])[j])
                      /\ KeyText(FieldOf(hGsms[i])[j]) = hRows[i][c][1]
          /\ \A c, d \in 1..Len(hRows[i]) : c # d => hRows[i][c][1] # hRows[i][d][1]
          /\ FieldOf(hGsms[i]) = <<>> => hRows[i] = << <<SampleIdKey, hGsms[i].sample_id>> >>
          /\ \A j \in 1..Len(FieldOf(hGsms[i])) :
                /\ DictHas(hTally, FieldOf(hGsms[i])[j])
                /\ DictGet(hTally, FieldOf(hGsms[i])[j])
                      = Occurrences(hGsms, FieldOf(hGsms[i])[j])
    /\ \A t \in 1..Len(hTally) : Occurrences(hGsms, hTally[t][1]) > 0

\* C7 as stated: one output row per sub-record; for every entry with a colon the row
\* has a column named by the trimmed, lower-cased text before the first colon whose
\* value is the trimmed text after it; an entry without a colon is tallied and adds
\* no column; a sub-record without the field yields a row with only the identifier.
C7_EveryEntryKeepsItsValue ==
    hPc = "done" =>
        /\ RowsAndTally
        /\ \A i \in 1..Len(hGsms) : \A j \in 1..Len(FieldOf(hGsms[i])) :
              HasColon(FieldOf(hGsms[i])[j]) =>
                 /\ DictHas(hRows[i], KeyText(FieldOf(hGsms[i])[j]))
                 /\ DictGet(hRows[i], KeyText(FieldOf(hGsms[i])[j]))
                       = ValueText(FieldOf(hGsms[i])[j])

\* C7 as amended: the same, except that when several entries of a sub-record have the
\* same trimmed, lower-cased key, the column holds the value of the last of them.
C7_LastEntryOfAKeyWins ==
    hPc = "done" =>
        /\ RowsAndTally
        /\ \A i \in 1..Len(hGsms) : \A j \in 1..Len(FieldOf(hGsms[i])) :
              LET f == FieldOf(hGsms[i])
              IN HasColon(f[j]) =>
                    /\ DictHas(hRows[i], KeyText(f[j]))
                    /\ (\A k \in (j + 1)..Len(f) :
                           ~(HasColon(f[k]) /\ KeyText(f[k]) = KeyText(f[j]))) =>
                          DictGet(hRows[i], KeyText(f[j])) = ValueText(f[j])

\* a row whose column comes from two entries with the same normalised key, next to
\* a sub-record whose only entry has no colon
C7_Witness ==
    /\ hPc = "done" /\ Len(hGsms) = 2
    /\ hGsms[1].items = << <<"a", ":", "4", ":", "1">>, <<" ", "A", " ", ":", " ", "5", " ">> >>
    /\ hRows[1] = << <<SampleIdKey, <<"G", "i">> >>, << <<"a">>, <<"5">> >> >>
    /\ hGsms[2].items = << <<"c">> >>
    /\ hRows[2] = << <<SampleIdKey, <<"G", "i", "i">> >> >>
    /\ DictGet(hTally, <<"c">>) = 1

\* H:MM:SS of a whole number of seconds, H without leading zero and not limited to 23
HoursMinutesSeconds(n) ==
    Dec(n \div 3600) \o <<":">> \o Dec2((n % 3600) \div 60) \o <<":">> \o Dec2(n % 60)

\* the whole numbers of seconds nearest to a duration given in quarters of a second
Nearest(q) == {n \in {q \div 4, (q \div 4) + 1} : 4 * n - q <= 2 /\ q - 4 * n <= 2}

\* C11 as stated: for every non-negative duration format_duration returns the seconds
\* rounded to a whole number n, rendered as H:MM:SS with H = n div 3600, also for
\* durations of 24 hours or more; 0 gives "0:00:00" and 3661 gives "1:01:01".
C11_HoursMinutesSecondsForm ==
    dPc = "done" =>
        /\ \E n \in Nearest(dSeconds) : dOut = HoursMinutesSeconds(n)
        /\ dSeconds = 0 => dOut = <<"0", ":", "0", "0", ":", "0", "0">>
        /\ dSeconds = 4 * 3661 => dOut = <<"1", ":", "0", "1", ":", "0", "1">>

\* the lines that report resource usage: SystemMonitor.report and StepTimer's delta
ResourceTags == {"RES_HEADER", "RES_CPU", "RES_MEM", "RES_DISK", "DELTA"}

\* C12 as stated: a run of the GEO script with --no-monitor writes no resource-usage
\* line to the log in any step: neither the CPU, memory and disk report nor a
\* per-step RSS/disk/CPU delta.
C12_NoMonitorNoResourceLines ==
    (script = "geo" /\ args.no_monitor) => WithTags(log, ResourceTags) = <<>>

\* the results of requests.get / raise_for_status that are a failure
HttpFailures == {"conn_error", "http_error"}

\* a failed request is among the calls
HttpFailed(o) == \E i \in 1..Len(o) : o[i][1] = "http_get" /\ o[i][2] \in HttpFailures

\* C13: when the annotation archive is not cached (missing or empty) and the HTTP GET
\* fails or returns a non-success status, _download_if_needed raises after exactly
\* one request, the cache path is left as it was, the extraction step never starts,
\* the exception is logged and leaves main, and a later run finds no cache hit.
C13_FailedDownloadLeavesNoCache ==
    [][script = "anno" =>
          /\ (pc = "work" /\ step = 1 /\ pc' = "exit" /\ HttpFailed(NewOps)) =>
                /\ fs.tar \in {"none", "empty"}
                /\ Len(NewOps) = 1
                /\ exc' \in {"ConnectionError", "HTTPError"}
                /\ fs' = fs
          /\ HttpFailed(ops) =>
                /\ fs' = fs /\ fs.tar \in {"none", "empty"}
                /\ extracted' = extracted
                /\ step' <= 1
                /\ ~\E i \in 1..Len(log') : log'[i].tag = "START" /\ log'[i].arg = AnnoTitles[2]
                /\ pc' \notin {"work", "branch", "finish"}
                /\ (pc # "done" /\ pc' = "done") =>
                      /\ raised' \in {"ConnectionError", "HTTPError"}
                      /\ ops' = ops /\ Len(ops) = 1
                      /\ \E i \in 1..Len(log') :
                            log'[i].tag = "UNHANDLED" /\ log'[i].arg = raised'
                /\ (pc = "done" /\ pc' = "start") => ~CacheHit(fs'.tar)]_vars

\* a run that found an empty archive file, got a non-success status and ended with
\* the exception, the file still empty
C13_Witness ==
    /\ script = "anno" /\ pc = "done" /\ raised = "HTTPError"
    /\ fs.tar = "empty" /\ extracted = {}
    /\ ops = << <<"http_get", "http_error">> >>
    /\ Logged(log, "UNHANDLED") /\ Logged(log, "FAIL")

\* C14 as stated: the identifier column of every row equals the identifier of the
\* sub-record the row was built from, whatever the entries of the field (also when an
\* entry's trimmed, lower-cased key is 'sample_id', and when entries repeat a key),
\* and the identifier column is the first column of the export.
C14_RowKeepsItsIdentifier ==
    hPc = "done" =>
        /\ Len(hRows) = Len(hGsms)
        /\ \A i \in 1..Len(hGsms) :
              /\ DictHas(hRows[i], SampleIdKey)
              /\ DictGet(hRows[i], SampleIdKey) = hGsms[i].sample_id
        /\ hCsv.written
        /\ Len(hGsms) > 0 => (Len(hCsv.cols) > 0 /\ hCsv.cols[1] = SampleIdKey)
        /\ \A i \in 1..Len(hCsv.cells) : hCsv.cells[i][1] = hGsms[i].sample_id

\* C15 as stated: whenever download_soft returns normally, logging that the download
\* is complete, after a cache miss, the canonical archive path holds the archive the
\* provider downloaded for the requested identifier, whatever the data directory held
\* before (also the archive of a series whose identifier starts with the requested
\* one) and also when no file with the provider's default name is found.
C15_CompleteMeansCanonicalArchive ==
    [][(script = "geo" /\ pc = "work" /\ step = 1 /\ pc' = "exit"
            /\ Called(NewOps, "get_GEO_download") /\ exc' = "none") =>
          /\ Logged(NewLog, "DOWNLOAD_COMPLETE")
          /\ fs'.soft = "A"]_vars

====
